---- MODULE Spec2Model ----
(***************************************************************************)
(* Model of the generated service worker (flutter_service_worker.js, kept  *)
(* as src/unnamed/part_000): the three named cache stores, the install,    *)
(* activate, fetch and message listeners, downloadOffline and onlineFirst. *)
(*                                                                         *)
(* URLs are modelled by the part after `origin + "/"`, as a sequence of    *)
(* tokens: a path name, the marker "?v=" followed by a version value, or   *)
(* the marker "#" followed by a client-side route.  <<>> is the root URL.  *)
(*                                                                         *)
(* Environment (the browser's service worker lifecycle):                   *)
(*  - a deployment is a worker script with its RESOURCES and CORE; the     *)
(*    server moves through the builds in order, the browser may skip one;  *)
(*  - install and activate are serialised; activate of a new worker starts *)
(*    only when the outgoing worker has no handler in flight; the install  *)
(*    listener (TEMP) and the fetch and message listeners (CACHE_NAME)     *)
(*    work on different stores and are not interleaved;                    *)
(*  - fetch and message events are dispatched to an activated worker only. *)
(*  - property names inherited from Object.prototype are not in the key    *)
(*    universe, so RESOURCES[key] is a lookup among the own keys.          *)
(*                                                                         *)
(* The page's payment bridge (src/mercadopago_bridge.js) is a separate     *)
(* specification, BridgeSpec, over the variable bridge.                    *)
(***************************************************************************)
EXTENDS Naturals, Sequences, FiniteSets, TLC

\* ---------------------------------------------------------------- names
MANIFEST == "flutter-app-manifest"
TEMP == "flutter-temp-cache"
CACHE_NAME == "flutter-app-cache"

\* ---------------------------------------------------------------- bounds
\* fetch events dispatched in one behaviour
MaxFetches == 2
\* message events dispatched in one behaviour
MaxMessages == 1
\* errors injected into Activate's try block in one behaviour
MaxFaults == 1
\* calls of renderPaymentBrick in one behaviour of the payment bridge
MaxRenders == 3

\* ------------------------------------------------------------ deployments
Root == <<"/">>

\* Three successive builds of the worker.  Build 2 changes the root and A,
\* keeps B and adds the shell file C; build 3 reverts A and the root,
\* changes B and retires C.
RESOURCES(v) ==
  CASE v = 1 -> (Root :> "r1") @@ (<<"A">> :> "a1") @@ (<<"B">> :> "b1")
    [] v = 2 -> (Root :> "r2") @@ (<<"A">> :> "a2") @@ (<<"B">> :> "b1")
                @@ (<<"C">> :> "c1")
    [] OTHER -> (Root :> "r1") @@ (<<"A">> :> "a1") @@ (<<"B">> :> "b2")

CORE(v) ==
  CASE v = 2 -> {<<"A">>, <<"C">>}
    [] OTHER -> {<<"A">>}

Versions == {1, 2, 3}
LastVersion == CHOOSE v \in Versions : \A w \in Versions : w <= v
NoWorker == 0

\* Request URLs a page issues (relative to the origin).
Urls ==
  { <<>>, <<"A">>, <<"B">>, <<"X">>, <<"A", "?v=", "1">>, <<"#", "r">> }

\* ---------------------------------------------------------------- strings
\* s.indexOf(tok): first position of tok, 0 when absent
IndexOf(s, tok) ==
  IF \E i \in 1..Len(s) : s[i] = tok
    THEN CHOOSE i \in 1..Len(s) : s[i] = tok /\ \A j \in 1..(i-1) : s[j] # tok
    ELSE 0

\* s.split(tok)[0]
SplitFirst(s, tok) ==
  IF IndexOf(s, tok) = 0 THEN s ELSE SubSeq(s, 1, IndexOf(s, tok) - 1)

\* the URL without its fragment: the identity under which a Cache matches
StripFrag(url) == SplitFirst(url, "#")

\* ------------------------------------------------------------ cache stores
\* caches : name -> (URL without fragment -> [url, resp]); a name outside
\* DOMAIN caches is a store that does not exist.
EmptyMap == [u \in {} |-> u]

CachesOpen(cs, name) ==
  IF name \in DOMAIN cs THEN cs
  ELSE [n \in DOMAIN cs \cup {name} |-> IF n = name THEN EmptyMap ELSE cs[n]]

CachesDelete(cs, name) == [n \in DOMAIN cs \ {name} |-> cs[n]]

CachePut(m, url, resp) ==
  [u \in DOMAIN m \cup {StripFrag(url)} |->
     IF u = StripFrag(url) THEN [url |-> url, resp |-> resp] ELSE m[u]]

CacheDelete(m, url) == [u \in DOMAIN m \ {StripFrag(url)} |-> m[u]]

CacheHas(m, url) == StripFrag(url) \in DOMAIN m
CacheMatch(m, url) == m[StripFrag(url)].resp

\* cache.keys(): the stored requests
CacheKeys(m) == {m[u].url : u \in DOMAIN m}

\* put every entry of src into dst (the copy loops of activate)
RECURSIVE PutAll(_, _, _)
PutAll(dst, src, urls) ==
  IF urls = {} THEN dst
  ELSE LET u == CHOOSE x \in urls : TRUE
       IN PutAll(CachePut(dst, u, CacheMatch(src, u)), src, urls \ {u})

\* the entries of a store, the empty map when the store does not exist
Store(cs, name) == IF name \in DOMAIN cs THEN cs[name] ELSE EmptyMap

\* ---------------------------------------------------------------- network
\* The server ignores query and fragment and serves the current build.
ServerKey(url) ==
  LET p == SplitFirst(StripFrag(url), "?v=")
  IN IF p = <<>> THEN Root ELSE p

NetResponse(srv, url) ==
  IF ServerKey(url) \in DOMAIN RESOURCES(srv)
    THEN [body |-> RESOURCES(srv)[ServerKey(url)], ok |-> TRUE]
    ELSE [body |-> "404", ok |-> FALSE]

\* ------------------------------------------------------------ JSON manifest
\* JSON.stringify(RESOURCES): the text, as the set of its "key": "value" pairs
JSONStringify(m) == {<<k, m[k]>> : k \in DOMAIN m}
\* manifest.json()
JSONParse(text) ==
  [k \in {p[1] : p \in text} |-> (CHOOSE p \in text : p[1] = k)[2]]

ManifestUrl == <<"manifest">>

\* new Request(key): the URL of a manifest key
KeyUrl(key) == IF key = Root THEN <<>> ELSE key

\* ------------------------------------------------------------ logical keys
\* activate, lines 106-109 (downloadOffline, lines 196-199)
ActivateKey(url) == IF url = <<>> THEN Root ELSE url

\* fetch listener, lines 145-152
FetchKey(url) ==
  LET key == SplitFirst(url, "?v=")
  IN IF (Len(url) > 0 /\ url[1] = "#") \/ key = <<>> THEN Root ELSE key

\* activate, line 113: the eviction test
ShouldEvictNoFingerprint(new, old, key) == key \notin DOMAIN new
ShouldEvict(new, old, key) ==
  \/ key \notin DOMAIN new
  \/ key \notin DOMAIN old
  \/ new[key] # old[key]

\* ------------------------------------------------------------------ state
VARIABLES
  server,     \* the build the server currently serves
  caches,     \* the origin's CacheStorage
  worker,     \* the registration: installing, waiting, active worker, the
              \* workers whose skip-waiting flag is set, and (history) the
              \* responses the Install of the newest worker fetched
  inst,       \* position of the install listener's promise chain
  act,        \* position of the activate listener's async function
  fetch,      \* the fetch event in flight
  dl,         \* position of downloadOffline
  snap,       \* history: the stores when the running/last Activate started
  lastOk,     \* history: version whose Activate last completed successfully
  msg,        \* history: the data of the last message event
  bridge,     \* the page's payment bridge (mercadopago_bridge.js)
  nFetch, nMsg, nFault

vars == <<server, caches, worker, inst, act, fetch, dl, snap, lastOk, msg,
          bridge, nFetch, nMsg, nFault>>

IdleAct == [pc |-> "idle", todo |-> {}, old |-> EmptyMap, branch |-> "none",
            result |-> "none", fault |-> "none", pending |-> {},
            claimed |-> FALSE]
\* out: how the event was answered; net, puts: the network fetches issued
\* and the cache puts finished by the listener for this event; neterr: the
\* error the network fetch rejected with; err: the error given to the caller
IdleFetch == [pc |-> "idle", method |-> "GET", url |-> <<>>,
              resp |-> [body |-> "", ok |-> FALSE], out |-> "none", net |-> 0,
              puts |-> 0, neterr |-> "none", err |-> "none"]
\* seen: the keys downloadOffline found in the store (currentContent);
\* resources: the keys it asks addAll for; fetched: the keys whose network
\* fetch was issued; result: how the bulk operation ended
IdleDl == [pc |-> "idle", seen |-> {}, resources |-> {}, fetched |-> {},
           result |-> "none"]

\* The payment bridge: mp is set by init; controller is brickController;
\* pending are the bricks whose create() has not settled; mounted (history)
\* the bricks the SDK has mounted and the bridge has not unmounted; created
\* numbers the bricks; ready is window.mpBrickReady; last (history) is the
\* last call of renderPaymentBrick or destroy.
NoBrick == 0
IdleBridge == [mp |-> FALSE, controller |-> NoBrick, pending |-> {},
               mounted |-> {}, created |-> 0, ready |-> FALSE,
               last |-> "none"]

NoSnap == [content |-> EmptyMap, temp |-> EmptyMap, manifest |-> EmptyMap]

Init ==
  /\ server = 1
  /\ caches = EmptyMap
  /\ worker = [installing |-> NoWorker, waiting |-> NoWorker,
               active |-> NoWorker, state |-> "none", skip |-> {},
               core |-> EmptyMap]
  /\ inst = "idle"
  /\ act = IdleAct
  /\ fetch = IdleFetch
  /\ dl = IdleDl
  /\ snap = NoSnap
  /\ lastOk = NoWorker
  /\ msg = "none"
  /\ bridge = IdleBridge
  /\ nFetch = 0 /\ nMsg = 0 /\ nFault = 0

\* an activate event is being handled (or its unawaited calls are pending)
ActRunning == act.pc # "idle" \/ act.pending # {}

\* the newest worker of the registration
Newest == IF worker.waiting # NoWorker THEN worker.waiting ELSE worker.active

\* ------------------------------------------------------------- deployment
Deploy ==
  /\ server # LastVersion
  /\ ~ActRunning
  /\ server' = server + 1
  /\ UNCHANGED <<caches, worker, inst, act, fetch, dl, snap, lastOk,
                 nFetch, nMsg, msg, bridge, nFault>>

\* ---------------------------------------------------------------- install
\* lines 70 and 181: self.skipWaiting() sets the skip-waiting flag of worker v
SkipWaitingNoop(skip, v) == skip
SkipWaiting(skip, v) == skip \cup {v}

\* The browser finds a new script and dispatches "install"; the listener
\* calls skipWaiting() at once and starts caches.open(TEMP).
InstallDispatch ==
  /\ inst = "idle" /\ ~ActRunning
  /\ fetch.pc = "idle" /\ dl.pc = "idle"
  /\ server # Newest
  /\ worker' = [worker EXCEPT !.installing = server,
                              !.skip = SkipWaiting(@, server)]
  /\ inst' = "open"
  /\ UNCHANGED <<server, caches, act, fetch, dl, snap, lastOk,
                 nFetch, nMsg, msg, bridge, nFault>>

\* line 72: the store the install listener fills
InstallCacheContent == CACHE_NAME
InstallCache == TEMP

InstallOpen ==
  /\ inst = "open"
  /\ caches' = CachesOpen(caches, InstallCache)
  /\ inst' = "addAll"
  /\ UNCHANGED <<server, worker, act, fetch, dl, snap, lastOk,
                 nFetch, nMsg, msg, bridge, nFault>>

\* cache.addAll(CORE): every response is ok, then all are stored at once
RECURSIVE AddAll(_, _, _)
AddAll(m, urls, srv) ==
  IF urls = {} THEN m
  ELSE LET u == CHOOSE x \in urls : TRUE
       IN AddAll(CachePut(m, u, NetResponse(srv, u)), urls \ {u}, srv)

AllOk(urls, srv) == \A u \in urls : NetResponse(srv, u).ok

\* the responses addAll fetched, by URL
Fetched(urls, srv) == [u \in urls |-> NetResponse(srv, u)]

InstallAddAll ==
  /\ inst = "addAll"
  /\ AllOk({KeyUrl(k) : k \in CORE(worker.installing)}, server)
  /\ caches' = [caches EXCEPT ![InstallCache] =
                  AddAll(@, {KeyUrl(k) : k \in CORE(worker.installing)},
                         server)]
  /\ worker' = [worker EXCEPT !.waiting = worker.installing,
                              !.installing = NoWorker,
                              !.skip = @ \cap {worker.installing},
                              !.core = Fetched(
                                 {KeyUrl(k) : k \in CORE(worker.installing)},
                                 server)]
  /\ inst' = "idle"
  /\ UNCHANGED <<server, act, fetch, dl, snap, lastOk, nFetch, nMsg, msg, bridge, nFault>>

\* a core-shell fetch fails (network error or non-ok): nothing is stored and
\* the installing worker is discarded
InstallFail ==
  /\ inst = "addAll"
  /\ worker' = [worker EXCEPT !.installing = NoWorker,
                              !.skip = @ \ {worker.installing}]
  /\ inst' = "idle"
  /\ UNCHANGED <<server, caches, act, fetch, dl, snap, lastOk,
                 nFetch, nMsg, msg, bridge, nFault>>

\* --------------------------------------------------------------- activate
\* The waiting worker becomes the active worker and "activate" is dispatched.
\* The listener called skipWaiting() during install, so the worker does not
\* wait for the pages of the outgoing worker to close.
ActivateDispatch ==
  /\ worker.waiting # NoWorker
  /\ worker.waiting \in worker.skip \/ worker.active = NoWorker
  /\ inst = "idle" /\ ~ActRunning
  /\ fetch.pc = "idle" /\ dl.pc = "idle"
  /\ worker' = [worker EXCEPT !.active = worker.waiting,
                              !.waiting = NoWorker,
                              !.state = "activating", !.skip = {}]
  /\ act' = [IdleAct EXCEPT !.pc = "openContent"]
  /\ snap' = [content |-> Store(caches, CACHE_NAME),
              temp |-> Store(caches, TEMP),
              manifest |-> Store(caches, MANIFEST)]
  /\ UNCHANGED <<server, caches, inst, fetch, dl, lastOk,
                 nFetch, nMsg, msg, bridge, nFault>>

ActFrame == UNCHANGED <<server, worker, inst, fetch, dl, snap, lastOk,
                        nFetch, nMsg, msg, bridge, nFault>>

\* line 84
ActOpenContent ==
  /\ act.pc = "openContent"
  /\ caches' = CachesOpen(caches, CACHE_NAME)
  /\ act' = [act EXCEPT !.pc = "openTemp"]
  /\ ActFrame

\* line 85
ActOpenTemp ==
  /\ act.pc = "openTemp"
  /\ caches' = CachesOpen(caches, TEMP)
  /\ act' = [act EXCEPT !.pc = "openManifest"]
  /\ ActFrame

\* line 86
ActOpenManifest ==
  /\ act.pc = "openManifest"
  /\ caches' = CachesOpen(caches, MANIFEST)
  /\ act' = [act EXCEPT !.pc = "matchManifest"]
  /\ ActFrame

\* lines 87-89 and 103: read the prior manifest and choose the branch
ActMatchManifest ==
  /\ act.pc = "matchManifest"
  /\ IF CacheHas(caches[MANIFEST], ManifestUrl)
       THEN act' = [act EXCEPT !.pc = "contentKeys", !.branch = "upgrade",
                      !.old = JSONParse(
                                CacheMatch(caches[MANIFEST], ManifestUrl).body)]
       ELSE act' = [act EXCEPT !.pc = "deleteContent", !.branch = "first"]
  /\ UNCHANGED caches
  /\ ActFrame

\* line 90: with no prior manifest the whole Content Store is dropped
ResetContentKeep(cs) == cs
ResetContent(cs) == CachesDelete(cs, CACHE_NAME)

ActDeleteContent ==
  /\ act.pc = "deleteContent"
  /\ caches' = ResetContent(caches)
  /\ act' = [act EXCEPT !.pc = "reopenContent"]
  /\ ActFrame

\* line 91
ActReopenContent ==
  /\ act.pc = "reopenContent"
  /\ caches' = CachesOpen(caches, CACHE_NAME)
  /\ act' = [act EXCEPT !.pc = "tempKeys"]
  /\ ActFrame

\* line 105: contentCache.keys()
ActContentKeys ==
  /\ act.pc = "contentKeys"
  /\ act' = [act EXCEPT !.pc = "evict", !.todo = CacheKeys(caches[CACHE_NAME])]
  /\ UNCHANGED caches
  /\ ActFrame

\* The loops take the requests of keys() one by one.  An iteration touches
\* the entry of its own request only, so the iterations commute and one
\* order stands for all.
NextRequest(todo) == CHOOSE r \in todo : TRUE

\* lines 106-115: one iteration of the eviction loop
ActEvict ==
  /\ act.pc = "evict" /\ act.todo # {}
  /\ LET request == NextRequest(act.todo) IN
       /\ caches' =
            IF ShouldEvict(RESOURCES(worker.active), act.old,
                           ActivateKey(request))
              THEN [caches EXCEPT ![CACHE_NAME] = CacheDelete(@, request)]
              ELSE caches
       /\ act' = [act EXCEPT !.todo = @ \ {request}]
  /\ ActFrame

\* lines 105-116: the for loop is over when it has taken every request
EvictionDoneEarly(a) == a.pc = "evict"
EvictionDone(a) == a.pc = "evict" /\ a.todo = {}

\* lines 92 and 119: tempCache.keys(), after the eviction loop has ended
ActTempKeys ==
  /\ \/ act.pc = "tempKeys"
     \/ EvictionDone(act)
  /\ act' = [act EXCEPT !.pc = "copy", !.todo = CacheKeys(caches[TEMP])]
  /\ UNCHANGED caches
  /\ ActFrame

\* lines 94 and 121: contentCache.put(request, response) replaces an entry
CopyEntryIfAbsent(m, temp, request) ==
  IF CacheHas(m, request) THEN m
  ELSE CachePut(m, request, CacheMatch(temp, request))
CopyEntry(m, temp, request) == CachePut(m, request, CacheMatch(temp, request))

\* lines 93-94 and 120-121: one iteration of the copy loop
ActCopy ==
  /\ act.pc = "copy" /\ act.todo # {}
  /\ LET request == NextRequest(act.todo) IN
       /\ caches' = [caches EXCEPT ![CACHE_NAME] =
                       CopyEntry(@, caches[TEMP], request)]
       /\ act' = [act EXCEPT !.todo = @ \ {request}]
  /\ ActFrame

\* lines 96 and 123: caches.delete(TEMP)
DropTempMissing(cs) == cs
DropTemp(cs) == CachesDelete(cs, TEMP)

\* lines 96 and 123, after the copy loop has ended
ActDeleteTemp ==
  /\ act.pc = "copy" /\ act.todo = {}
  /\ caches' = DropTemp(caches)
  /\ act' = [act EXCEPT !.pc = "persist"]
  /\ ActFrame

\* Whether the async function waits for an operation before it goes on:
\* manifestCache.put is awaited (lines 98, 125), self.clients.claim() is
\* called without await (lines 100, 127) and is still pending at the return.
AwaitedNone(op) == FALSE
Awaited(op) == op = "persist"

PersistManifestOtherLabel(cs, v) ==
  [cs EXCEPT ![MANIFEST] =
     CachePut(@, <<"manifest.json">>,
              [body |-> JSONStringify(RESOURCES(v)), ok |-> TRUE])]
PersistManifest(cs, v) ==
  [cs EXCEPT ![MANIFEST] =
     CachePut(@, ManifestUrl,
              [body |-> JSONStringify(RESOURCES(v)), ok |-> TRUE])]

\* lines 98-101 and 125-128: persist the manifest, claim the clients, return.
\* The promise given to event.waitUntil settles at the return, and the
\* platform then marks the worker activated.
ActPersist ==
  /\ act.pc = "persist"
  /\ caches' = IF Awaited("persist")
                 THEN PersistManifest(caches, worker.active) ELSE caches
  /\ act' = [act EXCEPT !.pc = "done", !.result = "ok", !.old = EmptyMap,
               !.pending = {op \in {"persist", "claim"} : ~Awaited(op)}]
  /\ worker' = [worker EXCEPT !.state = "activated"]
  /\ lastOk' = worker.active
  /\ UNCHANGED <<server, inst, fetch, dl, snap, nFetch, nMsg, msg, bridge, nFault>>

\* an operation the function did not wait for finishes
ActPendingLand ==
  /\ act.pc \in {"idle", "done"}
  /\ \E op \in act.pending :
       /\ caches' = IF op = "persist" /\ MANIFEST \in DOMAIN caches
                      THEN PersistManifest(caches, worker.active) ELSE caches
       /\ act' = [act EXCEPT !.pending = @ \ {op},
                             !.claimed = (@ \/ op = "claim")]
  /\ ActFrame

\* the activate event is over: the listener keeps nothing of it
ActEnd ==
  /\ act.pc = "done"
  /\ act' = [IdleAct EXCEPT !.pending = act.pending]
  /\ snap' = NoSnap
  /\ worker' = [worker EXCEPT !.core = EmptyMap]
  /\ UNCHANGED <<server, caches, inst, fetch, dl, lastOk,
                 nFetch, nMsg, msg, bridge, nFault>>

\* The stores a run of the listener that throws nowhere leaves behind
\* (lines 84-128 taken as one function of the stores it starts from).
RECURSIVE EvictAll(_, _, _, _)
EvictAll(m, urls, new, old) ==
  IF urls = {} THEN m
  ELSE LET request == NextRequest(urls)
       IN EvictAll(IF ShouldEvict(new, old, ActivateKey(request))
                     THEN CacheDelete(m, request) ELSE m,
                   urls \ {request}, new, old)

Reconcile(cs, v) ==
  LET opened == CachesOpen(CachesOpen(CachesOpen(cs, CACHE_NAME), TEMP),
                           MANIFEST)
      base ==
        IF CacheHas(opened[MANIFEST], ManifestUrl)
          THEN [opened EXCEPT ![CACHE_NAME] =
                  EvictAll(@, CacheKeys(@), RESOURCES(v),
                           JSONParse(CacheMatch(opened[MANIFEST],
                                                ManifestUrl).body))]
          ELSE CachesOpen(ResetContent(opened), CACHE_NAME)
      copied == [base EXCEPT ![CACHE_NAME] =
                   PutAll(@, base[TEMP], CacheKeys(base[TEMP]))]
  IN PersistManifest(DropTemp(copied), v)

\* the steps of the try block, lines 84-128
TryPcs == {"openContent", "openTemp", "openManifest", "matchManifest",
           "deleteContent", "reopenContent", "contentKeys", "evict",
           "tempKeys", "copy", "persist"}

\* lines 129-131: an exception of the try block enters the catch clause
OnThrowUncaught(a) ==
  [a EXCEPT !.pc = "done", !.result = "rejected", !.fault = a.pc, !.todo = {}]
OnThrow(a) == [a EXCEPT !.pc = "catchContent", !.fault = a.pc, !.todo = {}]

\* an operation of the try block throws: control moves to the catch clause
ActThrow ==
  /\ act.pc \in TryPcs
  /\ nFault < MaxFaults
  /\ nFault' = nFault + 1
  /\ act' = OnThrow(act)
  /\ UNCHANGED <<server, caches, worker, inst, fetch, dl, snap, lastOk,
                 nFetch, nMsg, msg, bridge>>

\* lines 132-134: the store each step of the catch clause deletes
CatchTargetNoManifest(pc) ==
  CASE pc = "catchContent" -> CACHE_NAME
    [] OTHER -> TEMP
CatchTarget(pc) ==
  CASE pc = "catchContent" -> CACHE_NAME
    [] pc = "catchTemp" -> TEMP
    [] OTHER -> MANIFEST

\* line 132
ActCatchContent ==
  /\ act.pc = "catchContent"
  /\ caches' = CachesDelete(caches, CatchTarget(act.pc))
  /\ act' = [act EXCEPT !.pc = "catchTemp"]
  /\ ActFrame

\* line 133
ActCatchTemp ==
  /\ act.pc = "catchTemp"
  /\ caches' = CachesDelete(caches, CatchTarget(act.pc))
  /\ act' = [act EXCEPT !.pc = "catchManifest"]
  /\ ActFrame

\* line 134, then the async function returns
ActCatchManifest ==
  /\ act.pc = "catchManifest"
  /\ caches' = CachesDelete(caches, CatchTarget(act.pc))
  /\ act' = [act EXCEPT !.pc = "done", !.result = "failed", !.old = EmptyMap]
  /\ worker' = [worker EXCEPT !.state = "activated"]
  /\ UNCHANGED <<server, inst, fetch, dl, snap, lastOk, nFetch, nMsg, msg, bridge, nFault>>

\* ------------------------------------------------------------------ fetch
\* what the network can answer: the served resource or a server error
NetOutcomes(srv, url) ==
  {NetResponse(srv, url), [body |-> "500", ok |-> FALSE]}

Requests ==
  {[method |-> "GET", url |-> u] : u \in Urls}
    \cup {[method |-> "POST", url |-> <<"A">>]}

FetchFrame == UNCHANGED <<server, worker, inst, act, dl, snap, lastOk,
                          nMsg, msg, bridge, nFault>>

\* lines 141 and 155: the requests the listener answers itself
InterceptsAnyMethod(method, key, res) == key \in DOMAIN res
Intercepts(method, key, res) == method = "GET" /\ key \in DOMAIN res

\* lines 140-162: the synchronous part of the fetch listener
FetchDispatch ==
  /\ worker.state = "activated"
  /\ inst = "idle" /\ act.pc # "done"
  /\ fetch.pc = "idle"
  /\ nFetch < MaxFetches
  /\ nFetch' = nFetch + 1
  /\ \E req \in Requests :
       LET key == FetchKey(req.url)
           ev == [IdleFetch EXCEPT !.url = req.url, !.method = req.method]
       IN fetch' =
            IF ~Intercepts(req.method, key, RESOURCES(worker.active))
              THEN [ev EXCEPT !.pc = "end", !.out = "pass"]
            ELSE IF key = Root
              THEN [ev EXCEPT !.pc = "ofNet", !.net = 1]
            ELSE [ev EXCEPT !.pc = "cfOpen"]
  /\ UNCHANGED caches
  /\ FetchFrame

\* line 162: caches.open(CACHE_NAME)
FetchCfOpen ==
  /\ fetch.pc = "cfOpen"
  /\ caches' = CachesOpen(caches, CACHE_NAME)
  /\ fetch' = [fetch EXCEPT !.pc = "cfMatch"]
  /\ UNCHANGED nFetch
  /\ FetchFrame

\* lines 164-167: cache.match(event.request), then the response or fetch
FetchCfMatch ==
  /\ fetch.pc = "cfMatch"
  /\ fetch' = IF CacheHas(caches[CACHE_NAME], fetch.url)
                THEN [fetch EXCEPT !.pc = "end", !.out = "cached",
                        !.resp = CacheMatch(caches[CACHE_NAME], fetch.url)]
                ELSE [fetch EXCEPT !.pc = "cfNet", !.net = @ + 1]
  /\ UNCHANGED <<caches, nFetch>>
  /\ FetchFrame

\* lines 167-172: the network answers; an ok response is put in the cache
\* without waiting for the put, and the response is returned
FetchCfNet ==
  /\ fetch.pc = "cfNet"
  /\ \E r \in NetOutcomes(server, fetch.url) :
       fetch' = [fetch EXCEPT !.pc = IF r.ok THEN "cfPut" ELSE "end",
                              !.out = "network", !.resp = r]
  /\ UNCHANGED <<caches, nFetch>>
  /\ FetchFrame

\* the error a rejected fetch(event.request) carries
NetworkError == "TypeError: Failed to fetch"

\* lines 167-172 have no rejection handler: the rejection of fetch() is the
\* rejection of the promise given to respondWith
AfterNetFailRetry(f) ==
  IF f.net < 2 THEN [f EXCEPT !.net = @ + 1]
  ELSE [f EXCEPT !.pc = "end", !.out = "error", !.neterr = NetworkError,
                 !.err = NetworkError]
AfterNetFail(f) ==
  [f EXCEPT !.pc = "end", !.out = "error", !.neterr = NetworkError,
            !.err = NetworkError]

\* the network fetch fails: the rejection reaches the caller
FetchCfNetFail ==
  /\ fetch.pc = "cfNet"
  /\ fetch' = AfterNetFail(fetch)
  /\ UNCHANGED <<caches, nFetch>>
  /\ FetchFrame

\* a put on a cache handle; it has no visible effect once the store is deleted
HandlePut(cs, name, url, resp) ==
  IF name \in DOMAIN cs
    THEN [cs EXCEPT ![name] = CachePut(@, url, resp)] ELSE cs

\* line 169: the put finishes
FetchCfPut ==
  /\ fetch.pc = "cfPut"
  /\ caches' = HandlePut(caches, CACHE_NAME, fetch.url, fetch.resp)
  /\ fetch' = [fetch EXCEPT !.pc = "end", !.puts = @ + 1]
  /\ UNCHANGED nFetch
  /\ FetchFrame

\* the event is over: the listener keeps nothing of it
FetchEnd ==
  /\ fetch.pc = "end"
  /\ fetch' = IdleFetch
  /\ UNCHANGED <<caches, nFetch>>
  /\ FetchFrame

\* ------------------------------------------------------------ onlineFirst
\* line 213: the network answers with any response
FetchOfNet ==
  /\ fetch.pc = "ofNet"
  /\ \E r \in NetOutcomes(server, fetch.url) :
       fetch' = [fetch EXCEPT !.pc = "ofOpen", !.resp = r]
  /\ UNCHANGED <<caches, nFetch>>
  /\ FetchFrame

\* whether onlineFirst stores a response, line 215: it stores every response
OnlineFirstStores(r) == TRUE

\* lines 214-216: open the store, put without waiting, return the response
FetchOfOpen ==
  /\ fetch.pc = "ofOpen"
  /\ caches' = CachesOpen(caches, CACHE_NAME)
  /\ fetch' = [fetch EXCEPT
                 !.pc = IF OnlineFirstStores(fetch.resp) THEN "ofPut" ELSE "end",
                 !.out = "network"]
  /\ UNCHANGED nFetch
  /\ FetchFrame

\* line 215: the put finishes
FetchOfPut ==
  /\ fetch.pc = "ofPut"
  /\ caches' = HandlePut(caches, CACHE_NAME, fetch.url, fetch.resp)
  /\ fetch' = [fetch EXCEPT !.pc = "end", !.puts = @ + 1]
  /\ UNCHANGED nFetch
  /\ FetchFrame

\* line 218: the network fetch fails
FetchOfNetFail ==
  /\ fetch.pc = "ofNet"
  /\ fetch' = [fetch EXCEPT !.pc = "ofCatchOpen", !.neterr = NetworkError]
  /\ UNCHANGED <<caches, nFetch>>
  /\ FetchFrame

\* line 219
FetchOfCatchOpen ==
  /\ fetch.pc = "ofCatchOpen"
  /\ caches' = CachesOpen(caches, CACHE_NAME)
  /\ fetch' = [fetch EXCEPT !.pc = "ofCatchMatch"]
  /\ UNCHANGED nFetch
  /\ FetchFrame

\* line 224: with no cached response the catch handler throws its argument
OnCacheMissOther(error) == "NotFoundError"
OnCacheMiss(error) == error

\* lines 220-225: the cached response, or the network error again
FetchOfCatchMatch ==
  /\ fetch.pc = "ofCatchMatch"
  /\ fetch' = IF CacheHas(caches[CACHE_NAME], fetch.url)
                THEN [fetch EXCEPT !.pc = "end", !.out = "cached",
                        !.resp = CacheMatch(caches[CACHE_NAME], fetch.url)]
                ELSE [fetch EXCEPT !.pc = "end", !.out = "error",
                        !.err = OnCacheMiss(fetch.neterr)]
  /\ UNCHANGED <<caches, nFetch>>
  /\ FetchFrame

\* ---------------------------------------------------------------- message
Payloads == {"skipWaiting", "downloadOffline", "other"}

MsgFrame == UNCHANGED <<server, inst, act, fetch, snap, lastOk,
                        nFetch, nFault, bridge>>

\* lines 180 and 184: the instruction a payload is read as
MessageKindLoose(data) ==
  CASE data = "skipWaiting" -> "skipWaiting"
    [] OTHER -> "downloadOffline"
MessageKind(data) ==
  CASE data = "skipWaiting" -> "skipWaiting"
    [] data = "downloadOffline" -> "downloadOffline"
    [] OTHER -> "ignored"

\* lines 177-188, one synchronous step.  The page sends skipWaiting to the
\* waiting worker and the other payloads to the active worker.
Message ==
  /\ nMsg < MaxMessages
  /\ inst = "idle" /\ act.pc # "done"
  /\ nMsg' = nMsg + 1
  /\ \E data \in Payloads :
       /\ IF data = "skipWaiting" THEN worker.waiting # NoWorker
          ELSE worker.state = "activated" /\ dl.pc = "idle"
       /\ msg' = data
       /\ worker' = IF MessageKind(data) = "skipWaiting"
                      THEN [worker EXCEPT
                              !.skip = SkipWaiting(@, worker.waiting)]
                      ELSE worker
       /\ dl' = IF MessageKind(data) = "downloadOffline"
                  THEN [IdleDl EXCEPT !.pc = "open"] ELSE dl
  /\ UNCHANGED caches
  /\ MsgFrame

DlFrame == UNCHANGED <<server, worker, inst, act, fetch, snap, lastOk,
                       nFetch, nMsg, msg, bridge, nFault>>

\* line 193
DlOpen ==
  /\ dl.pc = "open"
  /\ caches' = CachesOpen(caches, CACHE_NAME)
  /\ dl' = [dl EXCEPT !.pc = "keys"]
  /\ DlFrame

\* lines 194-201: currentContent, the keys of the stored requests
CurrentContent(m) == {ActivateKey(u) : u \in CacheKeys(m)}

\* lines 202-206: the manifest keys that are not in currentContent
Missing(seen, res) == {k \in DOMAIN res : k \notin seen}

DlKeys ==
  /\ dl.pc = "keys"
  /\ LET seen == CurrentContent(Store(caches, CACHE_NAME)) IN
       dl' = [dl EXCEPT !.pc = "addAll", !.seen = seen,
                !.resources = Missing(seen, RESOURCES(worker.active))]
  /\ UNCHANGED caches
  /\ DlFrame

\* line 207: contentCache.addAll(resources) succeeds.  A fetch event that has
\* settled is dropped first: FetchEnd changes nothing else, so this order
\* stands for both.
DlAddAll ==
  /\ dl.pc = "addAll" /\ fetch.pc # "end"
  /\ AllOk({KeyUrl(k) : k \in dl.resources}, server)
  /\ caches' = IF CACHE_NAME \in DOMAIN caches
                 THEN [caches EXCEPT ![CACHE_NAME] =
                         AddAll(@, {KeyUrl(k) : k \in dl.resources}, server)]
                 ELSE caches
  /\ dl' = [dl EXCEPT !.pc = "done", !.result = "ok",
                      !.fetched = dl.resources]
  /\ DlFrame

\* line 207: a fetch of the bulk operation fails, nothing is stored
DlFail ==
  /\ dl.pc = "addAll"
  /\ dl' = [dl EXCEPT !.pc = "done", !.result = "failed",
                      !.fetched = dl.resources]
  /\ UNCHANGED caches
  /\ DlFrame

\* the message event is over: the listener keeps nothing of it
DlEnd ==
  /\ dl.pc = "done"
  /\ dl' = IdleDl
  /\ UNCHANGED caches
  /\ DlFrame

\* ------------------------------------------------------------------- spec
Next ==
  \/ Deploy
  \/ InstallDispatch \/ InstallOpen \/ InstallAddAll \/ InstallFail
  \/ ActivateDispatch
  \/ ActOpenContent \/ ActOpenTemp \/ ActOpenManifest \/ ActMatchManifest
  \/ ActDeleteContent \/ ActReopenContent
  \/ ActContentKeys \/ ActEvict \/ ActTempKeys \/ ActCopy \/ ActDeleteTemp
  \/ ActPersist \/ ActPendingLand \/ ActEnd \/ ActThrow
  \/ ActCatchContent \/ ActCatchTemp \/ ActCatchManifest
  \/ FetchDispatch \/ FetchCfOpen \/ FetchCfMatch \/ FetchCfNet
  \/ FetchCfNetFail \/ FetchCfPut \/ FetchEnd
  \/ FetchOfNet \/ FetchOfOpen \/ FetchOfPut \/ FetchOfNetFail
  \/ FetchOfCatchOpen \/ FetchOfCatchMatch
  \/ Message \/ DlOpen \/ DlKeys \/ DlAddAll \/ DlFail \/ DlEnd

Spec == Init /\ [][Next]_vars

\* --------------------------------------------------------- payment bridge
\* The bridge runs in the page and shares nothing with the worker.
WorkerFrame == UNCHANGED <<server, caches, worker, inst, act, fetch, dl, snap,
                           lastOk, msg, nFetch, nMsg, nFault>>

\* lines 248-255: init(publicKey) with the SDK loaded
BridgeInit ==
  /\ ~bridge.mp
  /\ bridge' = [bridge EXCEPT !.mp = TRUE]
  /\ WorkerFrame

\* controller.unmount(); an exception it throws is swallowed (lines 284,
\* 401-406)
Unmount(mounted, controller) == mounted \ {controller}

\* lines 266-296: drop the brick the bridge holds, then start a creation
RenderPaymentBrick ==
  /\ bridge.mp
  /\ bridge.created < MaxRenders
  /\ bridge' = [bridge EXCEPT
                  !.mounted = IF bridge.controller # NoBrick
                                THEN Unmount(@, bridge.controller) ELSE @,
                  !.controller = NoBrick,
                  !.pending = @ \cup {bridge.created + 1},
                  !.created = @ + 1,
                  !.last = "render"]
  /\ WorkerFrame

\* lines 385-387: a creation resolves with the controller of a mounted brick
CreateResolve ==
  /\ \E b \in bridge.pending :
       bridge' = [bridge EXCEPT !.pending = @ \ {b},
                                !.mounted = @ \cup {b},
                                !.controller = b]
  /\ WorkerFrame

\* lines 388-393: a creation rejects
CreateReject ==
  /\ \E b \in bridge.pending :
       bridge' = [bridge EXCEPT !.pending = @ \ {b}]
  /\ WorkerFrame

\* lines 311-315: the onReady callback of a mounted brick
OnReady ==
  /\ bridge.mounted # {} /\ ~bridge.ready
  /\ bridge' = [bridge EXCEPT !.ready = TRUE]
  /\ WorkerFrame

\* lines 399-410: destroy()
Destroy ==
  /\ bridge' = [bridge EXCEPT
                  !.mounted = IF bridge.controller # NoBrick
                                THEN Unmount(@, bridge.controller) ELSE @,
                  !.controller = NoBrick,
                  !.ready = FALSE,
                  !.last = "destroy"]
  /\ WorkerFrame

BridgeNext ==
  \/ BridgeInit \/ RenderPaymentBrick \/ CreateResolve \/ CreateReject
  \/ OnReady \/ Destroy

BridgeSpec == Init /\ [][BridgeNext]_vars

\* ========================================================== properties ==
Content == Store(caches, CACHE_NAME)

Completed == act.pc = "done"
CompletedOk(branch) ==
  act.pc = "done" /\ act.result = "ok" /\ act.branch = branch

\* the manifest the Manifest Store held when the Activate started
SnapOld == JSONParse(CacheMatch(snap.manifest, ManifestUrl).body)

\* the logical keys of a store's entries, as activate computes them
LogicalKeys(m) == {ActivateKey(u) : u \in CacheKeys(m)}

\* C1  Failure reset: when an Activate in which a step of the reconciliation
\* threw has completed, none of the three stores exists.
C1_FailureReset ==
  (Completed /\ act.result = "failed") => DOMAIN caches = {}

\* the manifest write of an upgrade threw, with all three stores populated
C1_Witness ==
  /\ Completed /\ act.result = "failed"
  /\ act.fault = "persist" /\ act.branch = "upgrade"
  /\ snap.content # EmptyMap

\* C2  Retention and eviction: after a successful Activate that found a prior
\* manifest, the Content Store holds exactly the previous entries whose key
\* the new manifest has with the old fingerprint, and the entries of the
\* Temporary Store; a retained entry keeps its response unless the Temporary
\* Store holds the same key.
Unchanged(new, old, key) ==
  key \in DOMAIN new /\ key \in DOMAIN old /\ new[key] = old[key]

Retained(before, new, old) ==
  {u \in DOMAIN before : Unchanged(new, old, ActivateKey(before[u].url))}

C2_RetentionEviction ==
  CompletedOk("upgrade") =>
    LET keep == Retained(snap.content, RESOURCES(worker.active), SnapOld)
    IN /\ DOMAIN Content = keep \cup DOMAIN snap.temp
       /\ \A u \in DOMAIN Content :
            Content[u] = IF u \in DOMAIN snap.temp
                           THEN snap.temp[u] ELSE snap.content[u]

\* an upgrade that retained an entry, evicted one whose fingerprint changed
\* and evicted one whose key the new manifest does not have
C2_Witness ==
  /\ CompletedOk("upgrade")
  /\ \E u \in DOMAIN snap.content :
       u \in DOMAIN Content /\ u \notin DOMAIN snap.temp
  /\ \E u \in DOMAIN snap.content :
       /\ u \notin DOMAIN Content
       /\ ActivateKey(snap.content[u].url) \in DOMAIN RESOURCES(worker.active)
  /\ \E u \in DOMAIN snap.content :
       /\ u \notin DOMAIN Content
       /\ ActivateKey(snap.content[u].url)
            \notin DOMAIN RESOURCES(worker.active)

\* C3  First-install full copy: after a successful Activate that found no
\* prior manifest, the Content Store holds exactly the entries of the
\* Temporary Store, whatever it held before.
C3_FirstInstallFullCopy ==
  CompletedOk("first") => Content = snap.temp

\* a first-install Activate that discarded a pre-existing entry
C3_Witness ==
  /\ CompletedOk("first")
  /\ snap.temp # EmptyMap
  /\ \E u \in DOMAIN snap.content : u \notin DOMAIN snap.temp

\* C4  Fingerprint invariant: when an Activate completes, every key of the
\* Content Store is a key of the activating worker's Resource Manifest.
C4_FingerprintInvariant ==
  Completed => LogicalKeys(Content) \subseteq DOMAIN RESOURCES(worker.active)

\* C5  In the steady state every entry of the Content Store has a logical
\* key that is a key of the current Resource Manifest.
C5_ContentKeysInManifest ==
  worker.state = "activated" =>
    LogicalKeys(Content) \subseteq DOMAIN RESOURCES(worker.active)

\* C6  No stale content: after a successful Activate, every stored response
\* has the fingerprint the current Resource Manifest gives for its key.
C6_NoStaleContent ==
  (worker.state = "activated" /\ lastOk = worker.active) =>
    \A u \in DOMAIN Content :
      LET key == ActivateKey(Content[u].url)
      IN key \in DOMAIN RESOURCES(worker.active) =>
           Content[u].resp.body = RESOURCES(worker.active)[key]

\* C7  After Activate completes, on each of its paths, the Temporary Store
\* does not exist.
C7_NoTempAfterActivate ==
  Completed => TEMP \notin DOMAIN caches

\* an upgrade completed that started with a populated Temporary Store
C7_Witness ==
  /\ CompletedOk("upgrade")
  /\ snap.temp # EmptyMap

\* C8  The Manifest Store holds at most one entry, under the label
\* 'manifest', whose value is the manifest of the version whose Activate
\* last completed successfully; a failed Activate leaves no entry.
C8_ManifestStore ==
  /\ MANIFEST \in DOMAIN caches =>
       /\ DOMAIN caches[MANIFEST] \subseteq {ManifestUrl}
       /\ \A u \in DOMAIN caches[MANIFEST] :
            /\ lastOk # NoWorker
            /\ caches[MANIFEST][u].url = ManifestUrl
            /\ JSONParse(caches[MANIFEST][u].resp.body) = RESOURCES(lastOk)
  /\ (Completed /\ act.result = "failed") =>
       Store(caches, MANIFEST) = EmptyMap

\* the second version's Activate has replaced the first version's manifest
C8_Witness ==
  /\ CompletedOk("upgrade")
  /\ lastOk = 2
  /\ CacheHas(Store(caches, MANIFEST), ManifestUrl)
  /\ CacheHas(snap.manifest, ManifestUrl)

\* The step-by-step listener and Reconcile agree on every successful run.
SnapStores ==
  (CACHE_NAME :> snap.content) @@ (TEMP :> snap.temp)
    @@ (MANIFEST :> snap.manifest)

ReconcileAgrees ==
  (Completed /\ act.result = "ok") =>
    caches = Reconcile(SnapStores, worker.active)

\* C9  Idempotence: running Activate again directly after a successful
\* Activate, with the same manifest and no Install in between, leaves the
\* key set of the Content Store unchanged.
C9_Idempotence ==
  (Completed /\ act.result = "ok") =>
    DOMAIN Store(Reconcile(caches, worker.active), CACHE_NAME)
      = DOMAIN Content

\* C10  The completion signal of the activate handler resolves only after
\* every store operation of the reconciliation has finished, so no fetch
\* event of the new worker touches the Content Store during reconciliation.
ReconciliationInProgress ==
  \/ act.pc \notin {"idle", "done"}
  \/ "persist" \in act.pending

C10_ActivateAwaited ==
  (worker.state = "activated" \/ fetch.pc # "idle")
    => ~ReconciliationInProgress

\* a fetch event of the upgraded worker reads the Content Store
C10_Witness ==
  /\ fetch.pc = "cfMatch"
  /\ worker.active = 2 /\ lastOk = 2
  /\ CacheHas(Content, fetch.url)

\* ------------------------------------------------------ fetch properties
\* the fetch event in flight is a GET the listener answers for key k
Handles(k) ==
  /\ fetch.pc # "idle" /\ fetch.method = "GET"
  /\ FetchKey(fetch.url) = k
  /\ k \in DOMAIN RESOURCES(worker.active)

NonRootKeys == {k \in DOMAIN RESOURCES(worker.active) : k # Root}

\* C11  Fetch-miss lazy fill: once a GET for a non-root manifest key that
\* missed the Content Store has been answered from the network, the key is
\* present in the Content Store if the response was ok, and the listener has
\* put nothing in the store if it was not.
C11_LazyFill ==
  \A k \in NonRootKeys :
    (Handles(k) /\ fetch.out = "network") =>
      IF fetch.resp.ok THEN k \in LogicalKeys(Content)
      ELSE fetch.puts = 0

\* C12  Root online-first fallback: when a GET normalised to the root key has
\* settled after its network fetch failed, the caller got the Content Store
\* entry of the request if there is one, and otherwise the rejection with
\* the error of the network fetch.
C12_RootFallback ==
  (Handles(Root) /\ fetch.pc = "end" /\ fetch.neterr # "none") =>
    IF CacheHas(Content, fetch.url)
      THEN fetch.out = "cached" /\ fetch.resp = CacheMatch(Content, fetch.url)
      ELSE fetch.out = "error" /\ fetch.err = fetch.neterr

\* offline navigation to a client-side route, served from the stored root
C12_Witness ==
  /\ Handles(Root) /\ fetch.pc = "end" /\ fetch.neterr # "none"
  /\ fetch.url = <<"#", "r">> /\ fetch.out = "cached"

C14_VersionStripping ==
  [][\A k \in NonRootKeys :
       (/\ Handles(k) /\ IndexOf(fetch.url, "?v=") # 0
        /\ fetch.pc = "cfMatch" /\ fetch'.pc # "cfMatch"
        /\ CacheHas(Content, KeyUrl(k)))
       => (/\ fetch'.out = "cached" /\ fetch'.net = 0
           /\ fetch'.resp = CacheMatch(Content, KeyUrl(k)))]_vars

\* ---------------------------------------------------- install properties
\* every Core Shell entry of build v is stored in the Temp Store
CoreStored(v) ==
  \A k \in CORE(v) : CacheHas(Store(caches, TEMP), KeyUrl(k))

\* C15 as stated: while the install listener's work is pending (the core
\* fetches are not all stored, and the install may still fail) the
\* installing worker has not issued the skip-waiting signal.
C15_SkipAfterCore ==
  inst # "idle" => worker.installing \notin worker.skip

\* C15, amended: the skip-waiting signal is issued when the install listener
\* starts, before any core fetch and whether or not the install then fails;
\* the worker leaves the installing state, and supersedes the active
\* worker, only with every Core Shell entry stored in the Temp Store.
C15_SkipWaitingAtStart ==
  /\ inst # "idle" => worker.installing \in worker.skip
  /\ worker.waiting # NoWorker => CoreStored(worker.waiting)
  /\ act.pc = "openContent" => CoreStored(worker.active)

\* an upgrade whose core fetches are pending has already set the flag
C15_Witness ==
  /\ inst = "addAll" /\ worker.active # NoWorker
  /\ worker.installing \in worker.skip
  /\ ~CoreStored(worker.installing)

\* the Content Store and the Manifest Store, with whether they exist
Durable(cs) == [n \in DOMAIN cs \cap {CACHE_NAME, MANIFEST} |-> cs[n]]

\* C16  Install failure: no step of an Install that fails (the dispatch, the
\* opening of the Temp Store, the failure of a core-shell fetch) changes the
\* Content Store, the Manifest Store, the active worker or the waiting
\* worker, and at the failure the installing worker is discarded.
C16_InstallFailure ==
  [][(inst' # inst /\ worker'.waiting = worker.waiting)
     => (/\ Durable(caches') = Durable(caches)
         /\ worker'.active = worker.active /\ worker'.state = worker.state
         /\ inst' = "idle" => worker'.installing = NoWorker)]_vars

\* After the Install of an upgrade has failed: the Temp Store was opened and
\* holds nothing, no worker waits, and the active worker still serves from
\* its own Content Store and manifest.
C16_Witness ==
  /\ inst = "idle" /\ worker.waiting = NoWorker /\ ~ActRunning
  /\ worker.active # NoWorker /\ worker.active # server
  /\ lastOk = worker.active
  /\ TEMP \in DOMAIN caches /\ caches[TEMP] = EmptyMap
  /\ Content # EmptyMap /\ CacheHas(Store(caches, MANIFEST), ManifestUrl)

\* ---------------------------------------------------- message properties
\* C17  On-demand full prefetch: at the step that completes a downloadOffline
\* whose bulk fetch succeeded, every manifest key is the key of an entry of
\* the Content Store, and the network fetches issued were those of the
\* manifest keys that were not keys of the store when it was enumerated.
C17_FullPrefetch ==
  [][(dl.pc = "addAll" /\ dl'.pc = "done" /\ dl'.result = "ok")
     => (/\ \A k \in DOMAIN RESOURCES(worker.active) :
              k \in LogicalKeys(Store(caches', CACHE_NAME))
         /\ dl'.fetched =
              {k \in DOMAIN RESOURCES(worker.active) : k \notin dl.seen})]_vars

\* C18  Message protocol: a message event changes no store; the skip-waiting
\* token does nothing but set the skip-waiting flag of the worker it is sent
\* to, the download-offline token does nothing but start the full prefetch,
\* and any other payload leaves the registration, the prefetch and the
\* stores as they were.
C18_MessageProtocol ==
  [][nMsg' # nMsg =>
      /\ caches' = caches
      /\ UNCHANGED <<server, inst, act, fetch>>
      /\ CASE msg' = "skipWaiting" ->
                /\ dl' = dl
                /\ worker' = [worker EXCEPT !.skip = @ \cup {worker.waiting}]
            [] msg' = "downloadOffline" ->
                /\ worker' = worker
                /\ dl' = [IdleDl EXCEPT !.pc = "open"]
            [] OTHER -> worker' = worker /\ dl' = dl]_vars

\* an unrecognised payload reached an active worker with a filled store
C18_Witness ==
  /\ msg = "other" /\ worker.state = "activated"
  /\ Content # EmptyMap /\ dl.pc = "idle"

\* C19  No retry: a fetch event issues at most one network fetch; when the
\* network fetch for a non-root manifest key fails, the event ends with the
\* rejection of that fetch handed to the caller and nothing put in the
\* Content Store; an event answered from the Content Store on the
\* cache-first path has issued no network fetch.
C19_NoRetry ==
  /\ fetch.net <= 1
  /\ \A k \in NonRootKeys :
       Handles(k) =>
         /\ fetch.neterr # "none" =>
              /\ fetch.pc = "end" /\ fetch.out = "error"
              /\ fetch.err = fetch.neterr /\ fetch.puts = 0
         /\ fetch.out = "cached" => fetch.net = 0

\* a miss whose network fetch failed, with other entries in the store
C19_Witness ==
  /\ \E k \in NonRootKeys : Handles(k)
  /\ fetch.pc = "end" /\ fetch.out = "error" /\ fetch.net = 1
  /\ ~CacheHas(Content, fetch.url) /\ Content # EmptyMap

\* ----------------------------------------------------- activate ordering
\* an Activate is under way, or has ended, and no step of it has thrown
NoThrow == act.pc # "idle" /\ act.fault = "none"

\* the manifest of the active worker is the stored manifest
Persisted ==
  /\ CacheHas(Store(caches, MANIFEST), ManifestUrl)
  /\ JSONParse(CacheMatch(Store(caches, MANIFEST), ManifestUrl).body)
       = RESOURCES(worker.active)

\* C20  Step ordering inside a successful Activate.  While the store is
\* enumerated and evicted nothing has been copied; when the copies start no
\* evictable entry is left; the Temp Store is whole while it is copied and
\* is deleted with every entry copied; the stored manifest changes only
\* with the Temp Store gone; the claim is issued only with the new manifest
\* stored; and at the end every entry of the Temp Store is in the Content
\* Store with the Temp Store's response, also under a retained key.
C20_StepOrdering ==
  /\ NoThrow =>
       /\ act.pc \in {"contentKeys", "evict"} =>
            /\ \A u \in DOMAIN Content :
                 u \in DOMAIN snap.content /\ Content[u] = snap.content[u]
            /\ Store(caches, TEMP) = snap.temp
       /\ act.pc = "copy" =>
            LET keep == IF act.branch = "upgrade"
                          THEN Retained(snap.content,
                                        RESOURCES(worker.active), act.old)
                          ELSE {}
            IN \A u \in DOMAIN Content :
                 \/ u \in DOMAIN snap.temp /\ Content[u] = snap.temp[u]
                 \/ u \in keep /\ Content[u] = snap.content[u]
       /\ act.pc \in {"tempKeys", "copy"} =>
            TEMP \in DOMAIN caches /\ caches[TEMP] = snap.temp
       /\ act.pc = "persist" =>
            /\ TEMP \notin DOMAIN caches
            /\ \A u \in DOMAIN snap.temp :
                 u \in DOMAIN Content /\ Content[u] = snap.temp[u]
       /\ Store(caches, MANIFEST) # snap.manifest =>
            TEMP \notin DOMAIN caches /\ act.pc = "done"
       /\ act.pc = "done" =>
            \A u \in DOMAIN snap.temp :
              u \in DOMAIN Content /\ Content[u] = snap.temp[u]
  /\ (act.claimed \/ "claim" \in act.pending) => Persisted

\* an upgrade retained a key that the Temp Store also held, with another
\* response than the retained entry's
C20_Witness ==
  /\ CompletedOk("upgrade")
  /\ \E u \in DOMAIN snap.temp :
       /\ u \in Retained(snap.content, RESOURCES(worker.active), SnapOld)
       /\ snap.content[u].resp # snap.temp[u].resp
       /\ Content[u] = snap.temp[u]

\* C21  Online-first stores only ok responses: the root entry of the Content
\* Store is never a non-ok response, a put of onlineFirst with a non-ok
\* response is never in flight, and the offline fallback of a root request
\* never answers with a non-ok response.
C21_RootEntryOk ==
  /\ CacheHas(Content, <<>>) => CacheMatch(Content, <<>>).ok
  /\ fetch.pc = "ofPut" => fetch.resp.ok
  /\ (Handles(Root) /\ fetch.out = "cached") => fetch.resp.ok

\* C22  Core shell after Install and Activate: when an Activate has
\* completed successfully, on either branch, every key of the worker's Core
\* Shell List has an entry in the Content Store, and the entry's response is
\* the one the worker's Install fetched.
C22_CoreShellInstalled ==
  (Completed /\ act.result = "ok") =>
    \A k \in CORE(worker.active) :
      /\ CacheHas(Content, KeyUrl(k))
      /\ KeyUrl(k) \in DOMAIN worker.core
      /\ CacheMatch(Content, KeyUrl(k)) = worker.core[KeyUrl(k)]

\* an upgrade whose Content Store held another response under a core key
C22_Witness ==
  /\ CompletedOk("upgrade")
  /\ \E k \in CORE(worker.active) :
       /\ CacheHas(snap.content, KeyUrl(k))
       /\ CacheMatch(snap.content, KeyUrl(k)) # worker.core[KeyUrl(k)]
       /\ CacheMatch(Content, KeyUrl(k)) = worker.core[KeyUrl(k)]

\* --------------------------------------------------- activate termination
\* the steps of the activate listener
ActStep ==
  \/ ActOpenContent \/ ActOpenTemp \/ ActOpenManifest \/ ActMatchManifest
  \/ ActDeleteContent \/ ActReopenContent
  \/ ActContentKeys \/ ActEvict \/ ActTempKeys \/ ActCopy \/ ActDeleteTemp
  \/ ActPersist \/ ActCatchContent \/ ActCatchTemp \/ ActCatchManifest

\* the statements still ahead of a position of the listener, lines 84-134
PcRank(pc) ==
  CASE pc = "openContent" -> 14 [] pc = "openTemp" -> 13
    [] pc = "openManifest" -> 12 [] pc = "matchManifest" -> 11
    [] pc = "deleteContent" -> 10 [] pc = "reopenContent" -> 9
    [] pc = "contentKeys" -> 8 [] pc = "evict" -> 7
    [] pc = "tempKeys" -> 6 [] pc = "copy" -> 5 [] pc = "persist" -> 4
    [] pc = "catchContent" -> 3 [] pc = "catchTemp" -> 2
    [] pc = "catchManifest" -> 1 [] OTHER -> 0

\* a bound on the steps the listener still takes: its position first, then
\* the requests its loop has yet to take
Rank(a) == PcRank(a.pc) * (Cardinality(Urls) + 1) + Cardinality(a.todo)

\* C23  Activate terminates and resolves.  A listener that has not returned
\* can always take a step, and every step lowers a bound on the steps left;
\* it ends resolved, never rejected, with the worker activated, and after a
\* caught error with no store left.  A fetch event of the worker that has
\* put its ok response leaves the entry in the Content Store.
C23_ActivateResolves ==
  /\ [](act.pc \notin {"idle", "done"} => ENABLED ActStep)
  /\ [][(act.pc \notin {"idle", "done"} /\ act' # act)
        => Rank(act') < Rank(act)]_vars
  /\ [](Completed =>
          /\ act.result \in {"ok", "failed"}
          /\ worker.state = "activated"
          /\ act.result = "failed" => DOMAIN caches = {})
  /\ []((fetch.pc = "end" /\ fetch.puts = 1) =>
          /\ CacheHas(Content, fetch.url)
          /\ CacheMatch(Content, fetch.url) = fetch.resp)

\* after an Activate that failed, a miss has refilled the fresh store
C23_Witness ==
  /\ worker.state = "activated" /\ lastOk # worker.active
  /\ \E k \in NonRootKeys : Handles(k)
  /\ fetch.pc = "end" /\ fetch.puts = 1
  /\ DOMAIN Content = {StripFrag(fetch.url)}
  /\ DOMAIN caches = {CACHE_NAME}

\* ------------------------------------------------------ bridge properties
\* C24  Payment bridge: at most one brick created by the bridge is mounted
\* and not yet unmounted, and when destroy() was the last call and no
\* creation is pending the bridge holds no brick controller.
C24_OneBrick ==
  /\ Cardinality(bridge.mounted) <= 1
  /\ (bridge.last = "destroy" /\ bridge.pending = {}) =>
       bridge.controller = NoBrick
====
